---- MODULE Spec2Model ----
(***************************************************************************)
(* Model of go-godin/log: the leveled logging facade (type Log), its       *)
(* package-level default instance std, and the earlier variant of the      *)
(* facade kept in log.go.                                                  *)
(*                                                                         *)
(* Strings that the code inspects character by character (level names go   *)
(* through strings.ToLower) are sequences of one-character strings.        *)
(* Messages and keys are opaque Go strings.  A value of type interface{}   *)
(* is a record [kind, str, num, elems].                                    *)
(***************************************************************************)
EXTENDS Integers, Sequences, FiniteSets, TLC

VARIABLES env, std, loggers, last, events, stdLevel

vars == <<env, std, loggers, last, events, stdLevel>>

(***************************************************************************)
(* Bounds of the model.                                                    *)
(***************************************************************************)
MaxLoggers == 3
MaxKeyvals == 3

(***************************************************************************)
(* Values of type interface{}.                                             *)
(***************************************************************************)
StrVal(s) == [kind |-> "string", str |-> s, num |-> 0, elems |-> <<>>]
IntVal(n) == [kind |-> "int", str |-> "", num |-> n, elems |-> <<>>]
ErrVal(s) == [kind |-> "error", str |-> s, num |-> 0, elems |-> <<>>]
SliceVal(kv) == [kind |-> "slice", str |-> "", num |-> 0, elems |-> kv]

Digits == <<"0", "1", "2", "3", "4", "5", "6", "7", "8", "9">>

RECURSIVE Itoa(_)
Itoa(n) ==
    IF n < 0 THEN "-" \o Itoa(0 - n)
    ELSE IF n < 10 THEN Digits[n + 1]
    ELSE Itoa(n \div 10) \o Digits[(n % 10) + 1]

RECURSIVE SprintElems(_)
\* fmt.Sprint: the default formatting of an operand.
Sprint(v) ==
    CASE v.kind = "string" -> v.str
      [] v.kind = "int" -> Itoa(v.num)
      [] v.kind = "error" -> v.str
      [] OTHER -> "[" \o SprintElems(v.elems) \o "]"
SprintElems(kv) ==
    IF kv = <<>> THEN ""
    ELSE IF Len(kv) = 1 THEN Sprint(kv[1])
    ELSE Sprint(kv[1]) \o " " \o SprintElems(Tail(kv))

(***************************************************************************)
(* strings.ToLower on a string held as a sequence of characters.           *)
(***************************************************************************)
UpperChars == <<"A", "B", "C", "D", "E", "F", "G", "H", "I", "J", "K", "L", "M",
                "N", "O", "P", "Q", "R", "S", "T", "U", "V", "W", "X", "Y", "Z">>
LowerChars == <<"a", "b", "c", "d", "e", "f", "g", "h", "i", "j", "k", "l", "m",
                "n", "o", "p", "q", "r", "s", "t", "u", "v", "w", "x", "y", "z">>

LowerChar(c) ==
    IF \E i \in DOMAIN UpperChars : UpperChars[i] = c
    THEN LowerChars[CHOOSE i \in DOMAIN UpperChars : UpperChars[i] = c]
    ELSE c

ToLower(s) == [i \in DOMAIN s |-> LowerChar(s[i])]

(***************************************************************************)
(* The constants of the package.                                           *)
(***************************************************************************)
LevelDebug == <<"d", "e", "b", "u", "g">>
LevelInfo == <<"i", "n", "f", "o">>
LevelWarning == <<"w", "a", "r", "n", "i", "n", "g">>
LevelError == <<"e", "r", "r", "o", "r">>
MessageKey == "message"

(***************************************************************************)
(* Package level (github.com/go-godin/log/level): severities, the options  *)
(* a filter is built from, and what each option lets through.              *)
(***************************************************************************)
Severities == <<"debug", "info", "warn", "error">>

Rank(sev) == CHOOSE i \in DOMAIN Severities : Severities[i] = sev

AtLeast(sev) == {Severities[i] : i \in {j \in DOMAIN Severities : j >= Rank(sev)}}

Allowed(opt) ==
    CASE opt = "AllowAll" -> AtLeast("debug")
      [] opt = "AllowDebug" -> AtLeast("debug")
      [] opt = "AllowInfo" -> AtLeast("info")
      [] opt = "AllowWarn" -> AtLeast("warn")
      [] opt = "AllowError" -> AtLeast("error")
      [] OTHER -> {}

\* level.NewFilter(next, opt): wraps next; a record passes the result only
\* if it passes opt and every filter already in next.
NewFilter(kitLogger, opt) ==
    [kitLogger EXCEPT !.filters = Append(@, opt)]

\* log.NewJSONLogger(log.NewSyncWriter(os.Stdout)): the sink, no filter and
\* no bound fields.
NewJSONLogger == [filters |-> <<>>, keyvals |-> <<>>]

\* log.With(logger, keyvals...): the logger with keyvals bound after the
\* fields it already carries.
KitWith(kitLogger, keyvals) ==
    [kitLogger EXCEPT !.keyvals = @ \o keyvals]

Passes(kitLogger, sev) ==
    \A i \in DOMAIN kitLogger.filters : sev \in Allowed(kitLogger.filters[i])

NoSpan == "nil"
NoErr == "nil"

Event(kind, span, key, value, sev, record, forwarded) ==
    [kind |-> kind, span |-> span, key |-> key, value |-> value,
     sev |-> sev, record |-> record, forwarded |-> forwarded]

\* level.Debug/Info/Warn/Error(logger).Log(keyvals...): the record is the
\* logger's bound fields followed by keyvals; the filters decide on sev.
LeveledLog(kitLogger, sev, keyvals) ==
    Event("submit", NoSpan, "", "", sev, kitLogger.keyvals \o keyvals,
          Passes(kitLogger, sev))

\* logger.Log(keyvals...) with no level: nothing for a filter to reject.
KitLog(kitLogger, keyvals) ==
    Event("submit", NoSpan, "", "", "none", kitLogger.keyvals \o keyvals, TRUE)

(***************************************************************************)
(* The facade (type Log).  A handle is [impl, kitLogger, span]; impl names *)
(* the variant of the type the handle belongs to ("v1": log.go, which has  *)
(* no span field; "v2": the variant with With, WithTrace and SetLevel).    *)
(***************************************************************************)
ErrNoLevel == "no log-level passed, falling back to debug"

\* Variant: the name is compared as given, without strings.ToLower.
evaluateLogLevelCaseSensitive(logLevel) ==
    CASE logLevel = LevelDebug -> [opt |-> "AllowDebug", err |-> NoErr]
      [] logLevel = LevelInfo -> [opt |-> "AllowInfo", err |-> NoErr]
      [] logLevel = LevelWarning -> [opt |-> "AllowWarn", err |-> NoErr]
      [] logLevel = LevelError -> [opt |-> "AllowError", err |-> NoErr]
      [] OTHER -> [opt |-> "AllowAll", err |-> ErrNoLevel]

evaluateLogLevel(logLevel) ==
    LET lower == ToLower(logLevel) IN
    CASE lower = LevelDebug -> [opt |-> "AllowDebug", err |-> NoErr]
      [] lower = LevelInfo -> [opt |-> "AllowInfo", err |-> NoErr]
      [] lower = LevelWarning -> [opt |-> "AllowWarn", err |-> NoErr]
      [] lower = LevelError -> [opt |-> "AllowError", err |-> NoErr]
      [] OTHER -> [opt |-> "AllowAll", err |-> ErrNoLevel]

\* log.go: the same mapping, with no error result.
evaluateLogLevelV1(logLevel) ==
    LET lower == ToLower(logLevel) IN
    CASE lower = LevelDebug -> "AllowDebug"
      [] lower = LevelInfo -> "AllowInfo"
      [] lower = LevelWarning -> "AllowWarn"
      [] lower = LevelError -> "AllowError"
      [] OTHER -> "AllowAll"

\* Variant: the message pair is appended after keyvals.
mergeKeyValuesMessageLast(message, keyvals) ==
    LET levelData == IF message # ""
                     THEN <<StrVal(MessageKey), StrVal(message)>>
                     ELSE <<>>
    IN  keyvals \o levelData

mergeKeyValues(message, keyvals) ==
    LET levelData == IF message # ""
                     THEN <<StrVal(MessageKey), StrVal(message)>>
                     ELSE <<>>
    IN  levelData \o keyvals

Annotate(span, message) ==
    Event("annotate", span, "", message, "none", <<>>, FALSE)

Tag(span, key, value) ==
    Event("tag", span, key, value, "none", <<>>, FALSE)

RECURSIVE TagLoopStepOne(_, _, _)
\* Variant: the loop advances by one element instead of two.
TagLoopStepOne(span, keyvals, i) ==
    IF ~(i < Len(keyvals)) THEN <<>>
    ELSE IF i >= Len(keyvals) \/ i + 1 >= Len(keyvals) THEN <<>>
    ELSE <<Tag(span, Sprint(keyvals[i + 1]), Sprint(keyvals[i + 2]))>>
         \o TagLoopStepOne(span, keyvals, i + 1)

RECURSIVE TagLoop(_, _, _)
\* The loop of handleTrace; i is the Go (0-based) index.
TagLoop(span, keyvals, i) ==
    IF ~(i < Len(keyvals)) THEN <<>>
    ELSE IF i >= Len(keyvals) \/ i + 1 >= Len(keyvals) THEN <<>>
    ELSE <<Tag(span, Sprint(keyvals[i + 1]), Sprint(keyvals[i + 2]))>>
         \o TagLoop(span, keyvals, i + 2)

handleTrace(l, message, keyvals) ==
    IF l.span # NoSpan
    THEN (IF message # "" THEN <<Annotate(l.span, message)>> ELSE <<>>)
         \o TagLoop(l.span, keyvals, 0)
    ELSE <<>>

\* The methods: the calls a method makes on the span and on the sink, in
\* the order it makes them.
Log(l, keyvals) ==
    handleTrace(l, "", keyvals) \o <<KitLog(l.kitLogger, keyvals)>>

\* Variant: Debug enriches the span like the other severities.
DebugTraced(l, message, keyvals) ==
    handleTrace(l, message, keyvals)
    \o <<LeveledLog(l.kitLogger, "debug", mergeKeyValues(message, keyvals))>>

Debug(l, message, keyvals) ==
    <<LeveledLog(l.kitLogger, "debug", mergeKeyValues(message, keyvals))>>

Info(l, message, keyvals) ==
    handleTrace(l, message, keyvals)
    \o <<LeveledLog(l.kitLogger, "info", mergeKeyValues(message, keyvals))>>

\* Variant: Warning logs through level.Info.
WarningAsInfo(l, message, keyvals) ==
    handleTrace(l, message, keyvals)
    \o <<LeveledLog(l.kitLogger, "info", mergeKeyValues(message, keyvals))>>

Warning(l, message, keyvals) ==
    handleTrace(l, message, keyvals)
    \o <<LeveledLog(l.kitLogger, "warn", mergeKeyValues(message, keyvals))>>

Error(l, message, keyvals) ==
    handleTrace(l, message, keyvals)
    \o <<LeveledLog(l.kitLogger, "error", mergeKeyValues(message, keyvals))>>

\* NewLogger: the handle, and the calls made while building it (the
\* warning about an unrecognised level name).
NewLogger(logLevel) ==
    LET r == evaluateLogLevel(logLevel)
        log == [impl |-> "v2",
                kitLogger |-> NewFilter(NewJSONLogger, r.opt),
                span |-> NoSpan]
    IN  [log |-> log,
         events |-> IF r.err # NoErr
                    THEN Warning(log, "", <<StrVal("err"), ErrVal(r.err)>>)
                    ELSE <<>>]

\* The receiver is a copy of the caller's handle: this is the copy when the
\* method returns.
SetLevel(l, logLevel) ==
    LET r == evaluateLogLevel(logLevel)
        lvl == IF r.err # NoErr THEN "AllowInfo" ELSE r.opt
    IN  [l EXCEPT !.kitLogger = NewFilter(l.kitLogger, lvl)]

\* A context is the span it carries, if any.
SpanFromContext(ctx) == ctx.span

WithTrace(l, ctx) ==
    IF SpanFromContext(ctx) # NoSpan
    THEN [impl |-> l.impl, kitLogger |-> l.kitLogger, span |-> SpanFromContext(ctx)]
    ELSE [impl |-> l.impl, kitLogger |-> l.kitLogger, span |-> NoSpan]

\* Variant: the new fields are bound before the receiver's (log.WithPrefix).
WithPrefixed(l, keyvals) ==
    IF Len(keyvals) = 0 THEN l
    ELSE [impl |-> l.impl,
          kitLogger |-> [l.kitLogger EXCEPT !.keyvals = keyvals \o @],
          span |-> l.span]

\* Variant: the returned handle is built without the span field.
WithNoSpan(l, keyvals) ==
    IF Len(keyvals) = 0 THEN l
    ELSE [impl |-> l.impl,
          kitLogger |-> KitWith(l.kitLogger, keyvals),
          span |-> NoSpan]

With(l, keyvals) ==
    IF Len(keyvals) = 0 THEN l
    ELSE [impl |-> l.impl,
          kitLogger |-> KitWith(l.kitLogger, keyvals),
          span |-> l.span]

(***************************************************************************)
(* log.go: the variant without tracing.                                    *)
(***************************************************************************)
NewLoggerV1(logLevel) ==
    [impl |-> "v1",
     kitLogger |-> NewFilter(NewJSONLogger, evaluateLogLevelV1(logLevel)),
     span |-> NoSpan]

\* l.kitLogger.Log(keyvals): the slice is passed as one argument.
LogV1(l, keyvals) ==
    <<KitLog(l.kitLogger, <<SliceVal(keyvals)>>)>>

DebugV1(l, message, keyvals) ==
    <<LeveledLog(l.kitLogger, "debug", mergeKeyValues(message, keyvals))>>

InfoV1(l, message, keyvals) ==
    <<LeveledLog(l.kitLogger, "info", mergeKeyValues(message, keyvals))>>

WarningV1(l, message, keyvals) ==
    <<LeveledLog(l.kitLogger, "warn", mergeKeyValues(message, keyvals))>>

ErrorV1(l, message, keyvals) ==
    <<LeveledLog(l.kitLogger, "error", mergeKeyValues(message, keyvals))>>

(***************************************************************************)
(* The inputs the operations are called with.                              *)
(***************************************************************************)
LevelNames ==
    {<<>>, LevelDebug, <<"I", "N", "F", "O">>,
     <<"W", "a", "r", "n", "i", "n", "g">>, LevelError,
     <<"t", "r", "a", "c", "e">>}

\* LOG_LEVEL: unset, or set to a level name.
EnvValues == {<<>>, LevelError}

Messages == {"", "m"}

\* Argument lists of every length up to MaxKeyvals: string keys (the key
\* "code" repeats) with number and string values.
Sample(i) ==
    IF i % 2 = 1 THEN StrVal("code")
    ELSE IF i % 4 = 2 THEN IntVal(500)
    ELSE StrVal("x")

Keyvals == {[i \in 1..n |-> Sample(i)] : n \in 0..MaxKeyvals}

\* Argument lists for With: none, pairs, and an odd one.
Fields ==
    {<<>>, <<StrVal("svc"), StrVal("api")>>, <<StrVal("req"), IntVal(7)>>,
     <<StrVal("odd")>>}

Spans == {"span1", "span2"}

Background == [span |-> NoSpan]

Contexts == {Background} \cup {[span |-> s] : s \in Spans}

(***************************************************************************)
(* State.  env is the value of LOG_LEVEL; std is the package's default     *)
(* instance; loggers are the handles the program holds, in the order it    *)
(* got them: the first from a constructor, the others derived (handles     *)
(* from different constructor calls have nothing in common but the         *)
(* process's standard output); events are the calls the last operation     *)
(* made on spans and on the sink, in order; last describes the last        *)
(* operation; stdLevel is the argument of the last package-level SetLevel  *)
(* call, if there was one.                                                 *)
(***************************************************************************)
StdId == 0

NoLevel == [opt |-> "", err |-> NoErr]

NoHandle == [impl |-> "", kitLogger |-> NewJSONLogger, span |-> NoSpan]

\* What the last operation was: its name, the handle it was called on, its
\* arguments, the handle it returned, and for the operations that resolve a
\* level name what evaluateLogLevel returned.
Op(op, recv, name, message, keyvals, ctx, result) ==
    [op |-> op, recv |-> recv, name |-> name, message |-> message,
     keyvals |-> keyvals, ctx |-> ctx, result |-> result,
     resolved |-> NoLevel, copy |-> NoHandle]

Resolving(op, recv, name, result, copy) ==
    [Op(op, recv, name, "", <<>>, Background, result)
        EXCEPT !.resolved = evaluateLogLevel(name), !.copy = copy]

\* Variant: the default instance built with another level.
StdInitWarning == NewLogger(LevelWarning)

\* var std = NewLogger("info")
StdInit == NewLogger(LevelInfo)

Init ==
    /\ env \in EnvValues
    /\ std = StdInit.log
    /\ loggers = <<>>
    /\ events = StdInit.events
    /\ last = Op("init", StdId, <<>>, "", <<>>, Background, StdId)
    /\ stdLevel = [set |-> FALSE, name |-> <<>>]

Held(impl) == {h \in DOMAIN loggers : loggers[h].impl = impl}

CallNewLogger ==
    \E name \in LevelNames :
        /\ loggers = <<>>
        /\ loggers' = <<NewLogger(name).log>>
        /\ events' = NewLogger(name).events
        /\ last' = Resolving("NewLogger", StdId, name, 1, NoHandle)
        /\ UNCHANGED <<env, std, stdLevel>>

CallNewLoggerFromEnv ==
    /\ loggers = <<>>
    /\ loggers' = <<NewLogger(env).log>>
    /\ events' = NewLogger(env).events
    /\ last' = Resolving("NewLoggerFromEnv", StdId, env, 1, NoHandle)
    /\ UNCHANGED <<env, std, stdLevel>>

\* SetLevel has a value receiver: what it assigns is the copy's field, and
\* the handle the caller holds is as before.
CallSetLevel ==
    \E h \in Held("v2"), name \in LevelNames :
        /\ events' = <<>>
        /\ last' = Resolving("SetLevel", h, name, h, SetLevel(loggers[h], name))
        /\ UNCHANGED <<env, std, loggers, stdLevel>>

CallWithTrace ==
    \E h \in Held("v2"), ctx \in Contexts :
        /\ Len(loggers) < MaxLoggers
        /\ loggers' = Append(loggers, WithTrace(loggers[h], ctx))
        /\ events' = <<>>
        /\ last' = Op("WithTrace", h, <<>>, "", <<>>, ctx, Len(loggers) + 1)
        /\ UNCHANGED <<env, std, stdLevel>>

CallWith ==
    \E h \in Held("v2"), keyvals \in Fields :
        /\ Len(loggers) < MaxLoggers
        /\ loggers' = Append(loggers, With(loggers[h], keyvals))
        /\ events' = <<>>
        /\ last' = Op("With", h, <<>>, "", keyvals, Background, Len(loggers) + 1)
        /\ UNCHANGED <<env, std, stdLevel>>

CallLog ==
    \E h \in Held("v2"), keyvals \in Keyvals :
        /\ events' = Log(loggers[h], keyvals)
        /\ last' = Op("Log", h, <<>>, "", keyvals, Background, h)
        /\ UNCHANGED <<env, std, loggers, stdLevel>>

CallDebug ==
    \E h \in Held("v2"), message \in Messages, keyvals \in Keyvals :
        /\ events' = Debug(loggers[h], message, keyvals)
        /\ last' = Op("Debug", h, <<>>, message, keyvals, Background, h)
        /\ UNCHANGED <<env, std, loggers, stdLevel>>

CallInfo ==
    \E h \in Held("v2"), message \in Messages, keyvals \in Keyvals :
        /\ events' = Info(loggers[h], message, keyvals)
        /\ last' = Op("Info", h, <<>>, message, keyvals, Background, h)
        /\ UNCHANGED <<env, std, loggers, stdLevel>>

CallWarning ==
    \E h \in Held("v2"), message \in Messages, keyvals \in Keyvals :
        /\ events' = Warning(loggers[h], message, keyvals)
        /\ last' = Op("Warning", h, <<>>, message, keyvals, Background, h)
        /\ UNCHANGED <<env, std, loggers, stdLevel>>

CallError ==
    \E h \in Held("v2"), message \in Messages, keyvals \in Keyvals :
        /\ events' = Error(loggers[h], message, keyvals)
        /\ last' = Op("Error", h, <<>>, message, keyvals, Background, h)
        /\ UNCHANGED <<env, std, loggers, stdLevel>>

(***************************************************************************)
(* The package-level functions, which forward to std.                      *)
(***************************************************************************)
\* std.SetLevel(level): std is copied into the receiver.
StdSetLevel ==
    \E name \in LevelNames :
        /\ events' = <<>>
        /\ last' = Resolving("SetLevel", StdId, name, StdId, SetLevel(std, name))
        /\ stdLevel' = [set |-> TRUE, name |-> name]
        /\ UNCHANGED <<env, std, loggers>>

StdInfo ==
    \E message \in Messages, keyvals \in Keyvals :
        /\ events' = Info(std, message, keyvals)
        /\ last' = Op("Info", StdId, <<>>, message, keyvals, Background, StdId)
        /\ UNCHANGED <<env, std, loggers, stdLevel>>

StdDebug ==
    \E message \in Messages, keyvals \in Keyvals :
        /\ events' = Debug(std, message, keyvals)
        /\ last' = Op("Debug", StdId, <<>>, message, keyvals, Background, StdId)
        /\ UNCHANGED <<env, std, loggers, stdLevel>>

StdWarning ==
    \E message \in Messages, keyvals \in Keyvals :
        /\ events' = Warning(std, message, keyvals)
        /\ last' = Op("Warning", StdId, <<>>, message, keyvals, Background, StdId)
        /\ UNCHANGED <<env, std, loggers, stdLevel>>

StdError ==
    \E message \in Messages, keyvals \in Keyvals :
        /\ events' = Error(std, message, keyvals)
        /\ last' = Op("Error", StdId, <<>>, message, keyvals, Background, StdId)
        /\ UNCHANGED <<env, std, loggers, stdLevel>>

(***************************************************************************)
(* The operations of log.go.                                               *)
(***************************************************************************)
CallNewLoggerV1 ==
    \E name \in LevelNames :
        /\ loggers = <<>>
        /\ loggers' = <<NewLoggerV1(name)>>
        /\ events' = <<>>
        /\ last' = Op("NewLogger", StdId, name, "", <<>>, Background, 1)
        /\ UNCHANGED <<env, std, stdLevel>>

CallNewLoggerFromEnvV1 ==
    /\ loggers = <<>>
    /\ loggers' = <<NewLoggerV1(env)>>
    /\ events' = <<>>
    /\ last' = Op("NewLoggerFromEnv", StdId, env, "", <<>>, Background, 1)
    /\ UNCHANGED <<env, std, stdLevel>>

CallLogV1 ==
    \E h \in Held("v1"), keyvals \in Keyvals :
        /\ events' = LogV1(loggers[h], keyvals)
        /\ last' = Op("Log", h, <<>>, "", keyvals, Background, h)
        /\ UNCHANGED <<env, std, loggers, stdLevel>>

CallDebugV1 ==
    \E h \in Held("v1"), message \in Messages, keyvals \in Keyvals :
        /\ events' = DebugV1(loggers[h], message, keyvals)
        /\ last' = Op("Debug", h, <<>>, message, keyvals, Background, h)
        /\ UNCHANGED <<env, std, loggers, stdLevel>>

CallInfoV1 ==
    \E h \in Held("v1"), message \in Messages, keyvals \in Keyvals :
        /\ events' = InfoV1(loggers[h], message, keyvals)
        /\ last' = Op("Info", h, <<>>, message, keyvals, Background, h)
        /\ UNCHANGED <<env, std, loggers, stdLevel>>

CallWarningV1 ==
    \E h \in Held("v1"), message \in Messages, keyvals \in Keyvals :
        /\ events' = WarningV1(loggers[h], message, keyvals)
        /\ last' = Op("Warning", h, <<>>, message, keyvals, Background, h)
        /\ UNCHANGED <<env, std, loggers, stdLevel>>

CallErrorV1 ==
    \E h \in Held("v1"), message \in Messages, keyvals \in Keyvals :
        /\ events' = ErrorV1(loggers[h], message, keyvals)
        /\ last' = Op("Error", h, <<>>, message, keyvals, Background, h)
        /\ UNCHANGED <<env, std, loggers, stdLevel>>

(***************************************************************************)
(* The three parts of the package share no state, and each has its         *)
(* specification: the facade with its derived handles, the default         *)
(* instance behind the package-level functions, and the facade of log.go.  *)
(***************************************************************************)
Next ==
    \/ CallNewLogger \/ CallNewLoggerFromEnv \/ CallSetLevel \/ CallWithTrace
    \/ CallWith \/ CallLog \/ CallDebug \/ CallInfo \/ CallWarning \/ CallError

Spec == Init /\ [][Next]_vars

NextStd == StdSetLevel \/ StdInfo \/ StdDebug \/ StdWarning \/ StdError

SpecStd == Init /\ [][NextStd]_vars

NextV1 ==
    \/ CallNewLoggerV1 \/ CallNewLoggerFromEnvV1 \/ CallLogV1 \/ CallDebugV1
    \/ CallInfoV1 \/ CallWarningV1 \/ CallErrorV1

SpecV1 == Init /\ [][NextV1]_vars

(***************************************************************************)
(* Vocabulary of the properties.                                           *)
(***************************************************************************)
SevOps == {"Debug", "Info", "Warning", "Error"}

TracedOps == {"Info", "Warning", "Error"}

LogOps == SevOps \cup {"Log"}

Constructors == {"NewLogger", "NewLoggerFromEnv"}

\* Debug < Info < Warning < Error.
OpOrder == <<"Debug", "Info", "Warning", "Error">>

OpRank(op) == CHOOSE i \in DOMAIN OpOrder : OpOrder[i] = op

Receiver == IF last.recv = StdId THEN std ELSE loggers[last.recv]

Returned == loggers[last.result]

Submits == SelectSeq(events, LAMBDA e : e.kind = "submit")

SpanCalls == SelectSeq(events, LAMBDA e : e.kind # "submit")

Annotations == SelectSeq(events, LAMBDA e : e.kind = "annotate")

Tags == SelectSeq(events, LAMBDA e : e.kind = "tag")

Forwarded == Len(Submits) = 1 /\ Submits[1].forwarded

\* name spells word in some mix of upper and lower case.
Spells(name, word) ==
    /\ Len(name) = Len(word)
    /\ \A i \in DOMAIN word :
          \/ name[i] = word[i]
          \/ \E k \in DOMAIN LowerChars :
                LowerChars[k] = word[i] /\ UpperChars[k] = name[i]

Recognised(name) ==
    \/ Spells(name, LevelDebug) \/ Spells(name, LevelInfo)
    \/ Spells(name, LevelWarning) \/ Spells(name, LevelError)

\* The rank of the severity a level name stands for; a name that is no
\* level name stands for all severities.
NamedRank(name) ==
    IF Spells(name, LevelInfo) THEN OpRank("Info")
    ELSE IF Spells(name, LevelWarning) THEN OpRank("Warning")
    ELSE IF Spells(name, LevelError) THEN OpRank("Error")
    ELSE OpRank("Debug")

OptionRank(opt) ==
    IF opt = "AllowInfo" THEN OpRank("Info")
    ELSE IF opt = "AllowWarn" THEN OpRank("Warning")
    ELSE IF opt = "AllowError" THEN OpRank("Error")
    ELSE OpRank("Debug")

\* The minimum severity of a handle: the strictest of its filters.
MinRank(l) ==
    LET ranks == {OptionRank(l.kitLogger.filters[i]) : i \in DOMAIN l.kitLogger.filters}
    IN  CHOOSE r \in ranks : \A q \in ranks : q <= r

BoundFields(l) == l.kitLogger.keyvals

MessagePair(message) ==
    IF message = "" THEN <<>> ELSE <<StrVal("message"), StrVal(message)>>

\* The string form of the values the calls are made with.
StringForm(v) ==
    IF v = IntVal(500) THEN "500"
    ELSE IF v = IntVal(7) THEN "7"
    ELSE v.str

(***************************************************************************)
(* C1.  A record of a Debug, Info, Warning or Error call reaches the sink  *)
(* if and only if the call's severity is at least the minimum severity of  *)
(* the handle it is made on: the one named at NewLogger, which With and    *)
(* WithTrace hand on to the handle they return.                            *)
(***************************************************************************)
C1_Filtering ==
    /\ last.op \in Constructors => MinRank(Returned) = NamedRank(last.name)
    /\ last.op \in {"With", "WithTrace"} => MinRank(Returned) = MinRank(Receiver)
    /\ last.op \in SevOps =>
          /\ Len(Submits) = 1
          /\ Submits[1].forwarded <=> OpRank(last.op) >= MinRank(Receiver)

C1_Witness ==
    /\ last.op = "Info"
    /\ last.recv = 2
    /\ MinRank(Receiver) = OpRank("Warning")
    /\ ~Forwarded

(***************************************************************************)
(* C2.  After the package-level SetLevel was called with a recognised      *)
(* level name, a record of a package-level Debug, Info, Warning or Error   *)
(* call reaches the sink if and only if its severity is at least the one   *)
(* named in the last SetLevel call.                                        *)
(***************************************************************************)
C2_SetLevelTakesEffect ==
    (/\ last.op \in SevOps
     /\ last.recv = StdId
     /\ stdLevel.set
     /\ Recognised(stdLevel.name))
    => (Forwarded <=> OpRank(last.op) >= NamedRank(stdLevel.name))

C4_ExpectedOption(name) ==
    IF Spells(name, LevelDebug) THEN "AllowDebug"
    ELSE IF Spells(name, LevelInfo) THEN "AllowInfo"
    ELSE IF Spells(name, LevelWarning) THEN "AllowWarn"
    ELSE IF Spells(name, LevelError) THEN "AllowError"
    ELSE "AllowAll"

C6_FieldsCumulative ==
    /\ last.op = "With" =>
          /\ BoundFields(Returned) = BoundFields(Receiver) \o last.keyvals
          /\ last.keyvals = <<>> => Returned = Receiver
    /\ last.op \in SevOps =>
          /\ Len(Submits) = 1
          /\ Submits[1].record
             = BoundFields(Receiver) \o MessagePair(last.message) \o last.keyvals

C6_Witness ==
    /\ Len(loggers) = 3
    /\ BoundFields(loggers[2]) = <<StrVal("svc"), StrVal("api")>>
    /\ BoundFields(loggers[3])
       = <<StrVal("svc"), StrVal("api"), StrVal("req"), IntVal(7)>>
    /\ last.op = "Info"
    /\ last.recv = 3
    /\ last.message = "m"
    /\ Len(last.keyvals) = 2

(***************************************************************************)
(* C7.  No operation changes a handle the program already holds; With      *)
(* returns a handle with the receiver's span and filter, WithTrace one     *)
(* with the receiver's bound fields and filter and the span of the         *)
(* context (none when the context has none); a call annotates and tags     *)
(* the span of the handle it is made on and no other.                      *)
(***************************************************************************)
C7_DerivedOK ==
    /\ last.op = "With" =>
          /\ Returned.span = Receiver.span
          /\ Returned.kitLogger.filters = Receiver.kitLogger.filters
    /\ last.op = "WithTrace" =>
          /\ Returned.kitLogger = Receiver.kitLogger
          /\ Returned.span = last.ctx.span
    /\ \A i \in DOMAIN SpanCalls :
          Receiver.span # NoSpan /\ SpanCalls[i].span = Receiver.span

C7_ParentUnchanged ==
    [][/\ std' = std
       /\ Len(loggers') >= Len(loggers)
       /\ \A i \in DOMAIN loggers : loggers'[i] = loggers[i]
       /\ C7_DerivedOK']_vars

C7_Witness ==
    /\ Len(loggers) = 3
    /\ loggers[2].span = "span1"
    /\ BoundFields(loggers[2]) = <<>>
    /\ BoundFields(loggers[3]) # <<>>
    /\ loggers[3].span = "span1"
    /\ last.op = "Info"
    /\ last.recv = 2
    /\ Len(SpanCalls) = 2
    /\ Submits[1].record = MessagePair(last.message) \o last.keyvals

C9_LogPassesPairs ==
    last.op = "Log" =>
        /\ Len(Submits) = 1
        /\ Submits[1].record = BoundFields(Receiver) \o last.keyvals
        /\ Submits[1].forwarded

(***************************************************************************)
(* C10.  Only Info, Warning, Error and Log annotate or tag, and only on a  *)
(* handle with a span; every annotation and tag of a call comes before     *)
(* the one record the call hands to the sink path; a call on a handle      *)
(* with a span annotates and tags whether or not the filter lets the       *)
(* record through.                                                         *)
(***************************************************************************)
C10_Enrichment ==
    /\ SpanCalls # <<>> =>
          /\ last.op \in TracedOps \cup {"Log"}
          /\ Receiver.span # NoSpan
    /\ last.op \in LogOps =>
          /\ Len(Submits) = 1
          /\ events[Len(events)].kind = "submit"
    /\ (last.op \in TracedOps /\ Receiver.span # NoSpan) =>
          /\ last.message # "" => Len(Annotations) = 1
          /\ Len(last.keyvals) >= 2 => Len(Tags) >= 1
    /\ (last.op = "Log" /\ Receiver.span # NoSpan) =>
          /\ Annotations = <<>>
          /\ Len(last.keyvals) >= 2 => Len(Tags) >= 1

C10_Witness ==
    /\ last.op = "Info"
    /\ Receiver.span # NoSpan
    /\ MinRank(Receiver) = OpRank("Error")
    /\ ~Forwarded
    /\ Len(Annotations) = 1
    /\ Len(Tags) = 1

====
